---- MODULE Spec2Model ----
(* A model of src/accounts-tequila-server.js: the connect pipeline that       *)
(* start() installs (bypass handlers, control handlers, tequilaRedirectHTTP)  *)
(* and the login handler it registers (fetchattributes, getIdFromResults).    *)
EXTENDS Integers, Sequences, FiniteSets, TLC

(* ------------------------------------------------------------------------ *)
(* Bounds of the model                                                       *)
(* ------------------------------------------------------------------------ *)
NumReqs == 1
NumLogins == 2
MaxBypass == 1
MaxControl == 2

ReqIds == 1..NumReqs
LoginIds == 1..NumLogins

(* ------------------------------------------------------------------------ *)
(* Values                                                                    *)
(* ------------------------------------------------------------------------ *)
\* A request path is its sequence of segments: <<>> is "/", <<"a">> is "/a".
Paths == {<<>>, <<"a">>, <<"a", "b">>, <<"b">>}
\* The urls given to connect.use(url, ...), as segments ("/" is <<>>).
Patterns == {<<>>, <<"a">>, <<"a", "b">>}

\* One-time tickets the authenticator has handed out.
Tickets == {"t1", "t2"}
\* A JavaScript value that is absent (undefined).
Undefined == "<undefined>"
\* JavaScript truthiness of a string-or-undefined value: `if (v)`.
Truthy(v) == v # Undefined /\ v # ""

\* req.query.key as connect-query parses it: absent, empty ("?key=") or a ticket.
QueryKeys == {Undefined, "", "t1"}
\* options.tequilaKey of a login call.
LoginKeys == {Undefined, ""} \cup Tickets

\* The attribute set fetchattributes returns for a ticket (its asserted name).
AttrsOf(t) == IF t = "t1" THEN "alice" ELSE "bob"
NoAttrs == "<no attributes>"

\* What the configured getUserId does: return nothing, a record with an _id, a
\* cursor whose forEach yields a value first or an error first, a bare id; or
\* throw, or return a promise that rejects.
ResolverKinds ==
  {"empty", "record", "cursor", "errcursor", "bare", "throws", "rejects"}

\* Errors, as records of the error's name and whatever was merged into it.
Err(name) == [name |-> name, attrs |-> NoAttrs]
NoErr == Err("<none>")
TransportError == Err("fetchattributes failed")
TicketUsedError == Err("ticket already redeemed")
CreateRequestError == Err("createrequest failed")
ResolverError == Err("getUserId threw")
CursorError == Err("cursor yielded an error")
ReferenceError(id) == Err("ReferenceError: " \o id \o " is not defined")

(* ------------------------------------------------------------------------ *)
(* State                                                                     *)
(* ------------------------------------------------------------------------ *)
VARIABLES
  config,    \* the options record start() builds (bypass, control, getUserId)
  reqs,      \* the HTTP requests, by id
  logins,    \* the login calls, by id
  redeemed,  \* the authenticator's tickets already exchanged for attributes
  startup    \* the call of start(): its fakeLocalServer option, how it ended,
             \* and the handlers it registered

vars == <<config, reqs, logins, redeemed, startup>>

(* ------------------------------------------------------------------------ *)
(* Configuration: the options record of start()                              *)
(* ------------------------------------------------------------------------ *)
SeqsUpTo(S, n) == UNION {[1..k -> S] : k \in 0..n}

\* The options start() falls back on: static paths bypassed, "/" controlled,
\* getUserId a findOne on the user store (a record, or nothing).
DefaultOptions ==
  [bypass |-> <<<<"a">>>>, control |-> <<<<>>>>, getUserId |-> "record"]

\* Options whose pattern lists opts overrides.
PatternConfigs ==
  [bypass : SeqsUpTo(Patterns, MaxBypass),
   control : SeqsUpTo(Patterns, MaxControl),
   getUserId : {DefaultOptions.getUserId}]

\* Options whose getUserId opts overrides.
ResolverConfigs ==
  [bypass : {DefaultOptions.bypass},
   control : {DefaultOptions.control},
   getUserId : ResolverKinds]

(* ------------------------------------------------------------------------ *)
(* start() and setupFakeLocalServer                                          *)
(* ------------------------------------------------------------------------ *)
\* Values of opts.fakeLocalServer: absent, false, true, a record with a port,
\* a record without one, a string.
FakeOptions == {Undefined, "false", "true", "{port: 3011}", "{}", "'yes'"}
\* `if (options.fakeLocalServer)`
FakeTruthy(f) == f \notin {Undefined, "false"}
\* Whether `"port" in configForFake` can be evaluated: not on a primitive.
FakeIsObject(f) == f \in {"{port: 3011}", "{}"}

InOperatorTypeError == Err("TypeError: cannot use 'in' operator on a primitive")
NotAFunctionTypeError == Err("TypeError: fakes.getCACert is not a function")
FakeConfigError == Err("setupFakeLocalServer: unable to determine what to do for config")

\* The error setupFakeLocalServer(configForFake, protocol) throws. `fakes` and
\* `https` are the promises import() returns, not the modules, so the branch
\* for a record with a port fails on fakes.getCACert(); the branch for true
\* is never reached, the `in` test before it throwing on a primitive.
setupFakeLocalServer(configForFake) ==
  IF ~FakeIsObject(configForFake) THEN InOperatorTypeError
  ELSE IF configForFake = "{port: 3011}" THEN NotAFunctionTypeError
  ELSE FakeConfigError

\* start() has been called and has not run yet.
StartCalled(f) ==
  [pc |-> "called", fakeLocalServer |-> f, handlers |-> {}, error |-> NoErr]

\* start() registering its handlers before it looks at fakeLocalServer.
start_RegistersFirst(f) ==
  IF FakeTruthy(f)
  THEN [pc |-> "threw", fakeLocalServer |-> f, handlers |-> {"http", "login"},
        error |-> setupFakeLocalServer(f)]
  ELSE [pc |-> "returned", fakeLocalServer |-> f, handlers |-> {"http", "login"},
        error |-> NoErr]

\* start(opts) run to its end: it throws out of setupFakeLocalServer before
\* any registration, or registers the connect app and the login handler.
start(f) ==
  IF FakeTruthy(f)
  THEN [pc |-> "threw", fakeLocalServer |-> f, handlers |-> {},
        error |-> setupFakeLocalServer(f)]
  ELSE [pc |-> "returned", fakeLocalServer |-> f, handlers |-> {"http", "login"},
        error |-> NoErr]

(* ------------------------------------------------------------------------ *)
(* The HTTP pipeline                                                         *)
(* ------------------------------------------------------------------------ *)
\* connect.use(route, fn) runs fn for the request paths that start with route
\* and go on, if at all, at a segment border; paths and routes are kept as
\* their segments, so letter case and a route's trailing "/" play no part.
Match(route, path) ==
  /\ Len(route) <= Len(path)
  /\ \A i \in 1..Len(route) : route[i] = path[i]

\* The layers with the control handlers registered ahead of the bypass ones.
Stack_ControlFirst ==
  <<[kind |-> "query", route |-> <<>>]>>
  \o [i \in 1..Len(config.control) |-> [kind |-> "control", route |-> config.control[i]]]
  \o [i \in 1..Len(config.bypass) |-> [kind |-> "bypass", route |-> config.bypass[i]]]

\* The layers with the control handlers mounted without their url.
Stack_ControlAtRoot ==
  <<[kind |-> "query", route |-> <<>>]>>
  \o [i \in 1..Len(config.bypass) |-> [kind |-> "bypass", route |-> config.bypass[i]]]
  \o [i \in 1..Len(config.control) |-> [kind |-> "control", route |-> <<>>]]

\* The layers of the connect app, in the order start() registers them.
Stack ==
  <<[kind |-> "query", route |-> <<>>]>>
  \o [i \in 1..Len(config.bypass) |-> [kind |-> "bypass", route |-> config.bypass[i]]]
  \o [i \in 1..Len(config.control) |-> [kind |-> "control", route |-> config.control[i]]]

IdleReq ==
  [st |-> "idle", path |-> <<>>, key |-> Undefined, tequila |-> FALSE,
   layer |-> 0, createCalls |-> 0, authCalls |-> 0, fetchCalls |-> 0,
   ctlRan |-> 0, ctlNext |-> 0, err |-> NoErr,
   \* what createrequest called back with (history, read by no handler)
   createAnswer |-> NoErr]

\* A request entering the pipeline; connect-query has not parsed it yet.
NewReq(path, key) ==
  [IdleReq EXCEPT !.st = "running", !.path = path, !.key = key]

\* tequilaRedirectHTTP redeeming the key it finds in the URL.
tequilaRedirectHTTP_RedeemsKey(req) ==
  IF Truthy(req.key)
  THEN [req EXCEPT !.fetchCalls = @ + 1, !.ctlNext = @ + 1]
  ELSE [req EXCEPT !.createCalls = @ + 1, !.st = "awaitCreate"]

\* tequilaRedirectHTTP without its else: next() is called in either case.
tequilaRedirectHTTP_AlwaysNext(req) ==
  IF Truthy(req.key)
  THEN [req EXCEPT !.ctlNext = @ + 1]
  ELSE [req EXCEPT !.createCalls = @ + 1, !.ctlNext = @ + 1]

\* tequilaRedirectHTTP up to the point where it returns: with a key it calls
\* next(); without, it calls protocol.createrequest and waits for its callback.
tequilaRedirectHTTP(req) ==
  IF Truthy(req.key)
  THEN [req EXCEPT !.ctlNext = @ + 1]
  ELSE [req EXCEPT !.createCalls = @ + 1, !.st = "awaitCreate"]

\* The handler start() registers for each bypass url.
BypassHandler(req) == [req EXCEPT !.tequila = TRUE]

\* The control handler marking the request once it has dealt with it.
ControlHandler_MarksRequest(req) ==
  LET r == [req EXCEPT !.ctlRan = @ + 1] IN
  IF r.tequila
  THEN [r EXCEPT !.ctlNext = @ + 1]
  ELSE [tequilaRedirectHTTP(r) EXCEPT !.tequila = TRUE]

\* The handler start() registers for each control url.
ControlHandler(req) ==
  LET r == [req EXCEPT !.ctlRan = @ + 1] IN
  IF r.tequila
  THEN [r EXCEPT !.ctlNext = @ + 1]
  ELSE tequilaRedirectHTTP(r)

Handle(layer, req) ==
  CASE layer.kind = "bypass" -> BypassHandler(req)
    [] layer.kind = "control" -> ControlHandler(req)
    [] OTHER -> req

\* connect's dispatch from layer i on: a layer whose route does not match is
\* skipped, and so is every one of these (three-argument) handlers once an
\* error is being forwarded; past the last layer the request leaves the app,
\* to the application (no error) or to the host's error handling.
RECURSIVE RunStack(_, _)
RunStack(req, i) ==
  IF i > Len(Stack)
  THEN [req EXCEPT !.st = IF req.err = NoErr THEN "passed" ELSE "errored",
                   !.layer = i]
  ELSE IF req.err # NoErr \/ ~Match(Stack[i].route, req.path)
  THEN RunStack(req, i + 1)
  ELSE LET r == Handle(Stack[i], [req EXCEPT !.layer = i]) IN
       IF r.st = "awaitCreate" THEN r ELSE RunStack(r, i + 1)

\* The callback redirecting whatever createrequest answered.
createrequestCallback_IgnoresErr(req, err) ==
  [req EXCEPT !.st = "redirected", !.authCalls = @ + 1]

\* The callback calling next() without the error.
createrequestCallback_DropsErr(req, err) ==
  IF err # NoErr
  THEN RunStack([req EXCEPT !.st = "running", !.ctlNext = @ + 1], req.layer + 1)
  ELSE [req EXCEPT !.st = "redirected", !.authCalls = @ + 1]

\* The callback tequilaRedirectHTTP gives to protocol.createrequest.
createrequestCallback(req, err) ==
  IF err # NoErr
  THEN RunStack([req EXCEPT !.st = "running", !.err = err], req.layer + 1)
  ELSE [req EXCEPT !.st = "redirected", !.authCalls = @ + 1]

(* ------------------------------------------------------------------------ *)
(* The login handler                                                         *)
(* ------------------------------------------------------------------------ *)
\* What a login call hands back: undefined, {userId}, {error}, or an exception
\* that left the handler (the async function's promise rejected).
Declined == [kind |-> "undefined", userId |-> Undefined, error |-> NoErr]
LoggedIn(id) == [kind |-> "userId", userId |-> id, error |-> NoErr]
Failed(e) == [kind |-> "error", userId |-> Undefined, error |-> e]
Thrown(e) == [kind |-> "thrown", userId |-> Undefined, error |-> e]
Pending == [kind |-> "pending", userId |-> Undefined, error |-> NoErr]

\* What fetchattributes calls back with: an error or an attribute set.
NoAnswer == [err |-> NoErr, attrs |-> NoAttrs]

IdleLogin ==
  [st |-> "idle", key |-> Undefined, fetchCalls |-> <<>>, resolverCalls |-> <<>>,
   result |-> Pending,
   \* what fetchattributes called back with (history, read by no handler)
   answer |-> NoAnswer]

\* The names each scope of the file declares.
ModuleScope ==
  {"Meteor", "WebApp", "Promise", "_", "connect_", "connectQuery", "Protocol",
   "debug_", "debug", "tequilaRedirectHTTP", "start", "getIdFromResults",
   "setupFakeLocalServer", "getIpOfInterface", "TequilaUnknownUserError"}
StartScope == {"opts", "options", "protocol", "connect"}
LoginHandlerScope == {"options", "key"}
FirstTryScope == {"fetchattributes", "results"}
SecondTryScope == {"userId"}
GetIdFromResultsScope == {"results", "resolve", "reject", "loggedInUser"}

\* The names visible where the login handler calls getIdFromResults(results):
\* the second try block, the handler, start() and the module. The first try
\* block's const and function declarations ended with that block.
ScopeAtCall ==
  SecondTryScope \cup LoginHandlerScope \cup StartScope \cup ModuleScope
\* The names visible where getIdFromResults calls options.getUserId(results):
\* getIdFromResults is a function of the module, not of start().
ScopeAtGetUserId == GetIdFromResultsScope \cup ModuleScope

\* The user id the application's user store holds for an attribute set.
UserIdOf(attrs) == "id:" \o attrs

\* A settled promise: resolved with a value or rejected with an error, and the
\* arguments getUserId was called with on the way.
Resolved(v, calls) == [ok |-> TRUE, value |-> v, error |-> NoErr, calls |-> calls]
Rejected(e, calls) == [ok |-> FALSE, value |-> Undefined, error |-> e, calls |-> calls]

\* getIdFromResults(results), once the promise it returns has settled.
getIdFromResults(results) ==
  IF "options" \notin ScopeAtGetUserId
  THEN Rejected(ReferenceError("options"), <<>>)
  ELSE LET kind == config.getUserId
           calls == <<results>> IN
       \* a throw and a rejection both end the await on line 133
       CASE kind \in {"throws", "rejects"} -> Rejected(ResolverError, calls)
         [] kind = "empty" -> Resolved(Undefined, calls)
         \* forEach's callback returns the value to forEach, not to the
         \* async function, which then ends without a return statement
         [] kind = "cursor" -> Resolved(Undefined, calls)
         \* the callback's throw leaves forEach and rejects the promise
         [] kind = "errcursor" -> Rejected(CursorError, calls)
         [] kind = "record" -> Resolved(UserIdOf(results), calls)
         [] OTHER -> Resolved(UserIdOf(results), calls)

\* The login handler calling fetchattributes whatever the key.
loginHandlerStart_NoKeyCheck(key) ==
  [IdleLogin EXCEPT !.st = "awaitFetch", !.key = key, !.fetchCalls = <<key>>]

\* The login handler asking for the attributes of a ticket other than the one
\* it was called with.
loginHandlerStart_FetchesOtherTicket(key) ==
  IF ~Truthy(key)
  THEN [IdleLogin EXCEPT !.st = "done", !.key = key, !.result = Declined]
  ELSE [IdleLogin EXCEPT !.st = "awaitFetch", !.key = key, !.fetchCalls = <<"t1">>]

\* The login handler's first step: decline without a key, else call
\* protocol.fetchattributes(key, cb) through Meteor.wrapAsync and wait.
loginHandlerStart(key) ==
  IF ~Truthy(key)
  THEN [IdleLogin EXCEPT !.st = "done", !.key = key, !.result = Declined]
  ELSE [IdleLogin EXCEPT !.st = "awaitFetch", !.key = key, !.fetchCalls = <<key>>]

\* The catch clause without its return statement: the handler goes on to the
\* second try block.
fetchattributesCatch_NoReturn(login, e) ==
  [login EXCEPT !.st = "done", !.result = Failed(ReferenceError("results"))]

\* The catch clause declining the login method instead of failing it.
fetchattributesCatch_Declines(login, e) ==
  [login EXCEPT !.st = "done", !.result = Declined]

\* The catch clause calling fetchattributes a second time.
fetchattributesCatch_Retries(login, e) ==
  [login EXCEPT !.st = "done", !.result = Failed(e),
                !.fetchCalls = @ \o <<login.key>>]

\* The catch clause falling back on the resolver, with no attributes.
fetchattributesCatch_Resolves(login, e) ==
  [login EXCEPT !.st = "done", !.result = Failed(e),
                !.resolverCalls = @ \o <<NoAttrs>>]

\* The catch clause of the first try block.
fetchattributesCatch(login, e) ==
  [login EXCEPT !.st = "done", !.result = Failed(e)]

\* The second try block and its catch clause, entered with the attributes
\* fetchattributes returned.
resolveUser(login, attrs) ==
  LET l == [login EXCEPT !.st = "done"] IN
  IF "results" \notin ScopeAtCall
  THEN [l EXCEPT !.result = Failed(ReferenceError("results"))]
  ELSE LET p == getIdFromResults(attrs)
           m == [l EXCEPT !.resolverCalls = @ \o p.calls] IN
       IF ~p.ok THEN [m EXCEPT !.result = Failed(p.error)]
       ELSE IF ~Truthy(p.value)
       THEN [m EXCEPT !.result = Failed(Err("Tequila:user-unknown"))]
       ELSE [m EXCEPT !.result = LoggedIn(p.value)]

\* A login handler whose await on fetchattributes never resumes.
loginHandlerResume_NeverSettles(login, answer) == login

\* The login handler from the moment fetchattributes' callback fires.
loginHandlerResume(login, answer) ==
  IF answer.err # NoErr
  THEN fetchattributesCatch(login, answer.err)
  ELSE resolveUser(login, answer.attrs)

(* ------------------------------------------------------------------------ *)
(* The authenticator (Tequila server), seen through protocol's two calls     *)
(* ------------------------------------------------------------------------ *)
\* What createrequest may call back with.
CreateRequestAnswers == {NoErr, CreateRequestError}

\* What fetchattributes may call back with for ticket t: the call may fail in
\* transit; a ticket is exchanged for attributes once and refused afterwards.
FetchAnswers(t) ==
  {[err |-> TransportError, attrs |-> NoAttrs]}
  \cup IF t \in redeemed
       THEN {[err |-> TicketUsedError, attrs |-> NoAttrs]}
       ELSE {[err |-> NoErr, attrs |-> AttrsOf(t)]}

(* ------------------------------------------------------------------------ *)
(* Actions                                                                   *)
(* ------------------------------------------------------------------------ *)
InitState ==
  /\ reqs = [r \in ReqIds |-> IdleReq]
  /\ logins = [l \in LoginIds |-> IdleLogin]
  /\ redeemed = {}

\* After start(opts) without a fakeLocalServer option.
Init == config \in ResolverConfigs /\ InitState /\ startup = start(Undefined)
InitPatterns == config \in PatternConfigs /\ InitState /\ startup = start(Undefined)
\* At the call of start(opts) with some fakeLocalServer option.
InitStart ==
  /\ config = DefaultOptions
  /\ InitState
  /\ startup \in {StartCalled(f) : f \in FakeOptions}

\* start(opts) runs.
Start ==
  /\ startup.pc = "called"
  /\ startup' = start(startup.fakeLocalServer)
  /\ UNCHANGED <<config, reqs, logins, redeemed>>

\* Ids are handed out in order: request r arrives after request r - 1.
NextFree(f, i) == f[i].st = "idle" /\ \A j \in 1..(i - 1) : f[j].st # "idle"

\* An HTTP request arrives and runs through the connect app until it leaves it
\* or waits for createrequest.
HTTPRequest(r, path, key) ==
  /\ "http" \in startup.handlers
  /\ NextFree(reqs, r)
  /\ reqs' = [reqs EXCEPT ![r] = RunStack(NewReq(path, key), 1)]
  /\ UNCHANGED <<config, logins, redeemed, startup>>

\* protocol.createrequest calls back.
CreateRequestReturns(r, err) ==
  /\ reqs[r].st = "awaitCreate"
  /\ reqs' = [reqs EXCEPT ![r] =
               [createrequestCallback(reqs[r], err) EXCEPT !.createAnswer = err]]
  /\ UNCHANGED <<config, logins, redeemed, startup>>

\* A login call that records the key it saw in the shared options.
LoginCall_RewritesOptions(l, key) ==
  /\ "login" \in startup.handlers
  /\ NextFree(logins, l)
  /\ logins' = [logins EXCEPT ![l] = loginHandlerStart(key)]
  /\ config' = IF Truthy(key) THEN [config EXCEPT !.getUserId = "empty"] ELSE config
  /\ UNCHANGED <<reqs, redeemed, startup>>

\* A client calls the login method.
LoginCall(l, key) ==
  /\ "login" \in startup.handlers
  /\ NextFree(logins, l)
  /\ logins' = [logins EXCEPT ![l] = loginHandlerStart(key)]
  /\ UNCHANGED <<config, reqs, redeemed, startup>>

\* protocol.fetchattributes calls back and the login handler runs to its end.
FetchAttributesReturns(l, answer) ==
  /\ logins[l].st = "awaitFetch"
  /\ answer \in FetchAnswers(logins[l].key)
  /\ logins' = [logins EXCEPT ![l] =
                 [loginHandlerResume(logins[l], answer) EXCEPT !.answer = answer]]
  /\ redeemed' = IF answer.err = NoErr THEN redeemed \cup {logins[l].key} ELSE redeemed
  /\ UNCHANGED <<config, reqs, startup>>

AllFetchAnswers == UNION {FetchAnswers(t) : t \in Tickets}

NextHTTP ==
  \/ \E r \in ReqIds, path \in Paths, key \in QueryKeys : HTTPRequest(r, path, key)
  \/ \E r \in ReqIds, err \in CreateRequestAnswers : CreateRequestReturns(r, err)

NextLogin ==
  \/ \E l \in LoginIds, key \in LoginKeys : LoginCall(l, key)
  \/ \E l \in LoginIds, answer \in AllFetchAnswers : FetchAttributesReturns(l, answer)

Next == NextHTTP \/ NextLogin

\* The whole program under the default patterns and any getUserId.
Spec == Init /\ [][Next]_vars
\* The HTTP pipeline under any bypass and control lists.
SpecHTTP == InitPatterns /\ [][NextHTTP]_vars
\* Login calls alone, fetchattributes' callback eventually firing for each
\* call that waits for it.
SpecLoginFair ==
  /\ Init
  /\ [][NextLogin]_vars
  /\ \A l \in LoginIds :
       WF_vars(\E answer \in AllFetchAnswers : FetchAttributesReturns(l, answer))
\* The program from the call of start(), under any fakeLocalServer option.
NextStart == Start \/ Next
SpecStart == InitStart /\ [][NextStart]_vars

(* ------------------------------------------------------------------------ *)
(* Properties of the HTTP pipeline                                           *)
(* ------------------------------------------------------------------------ *)
MatchesAny(list, path) == \E i \in 1..Len(list) : Match(list[i], path)
NumMatching(list, path) == Cardinality({i \in 1..Len(list) : Match(list[i], path)})

\* The three outcomes of classifying a path against the two lists.
Whitelisted(path) == MatchesAny(config.bypass, path)
Controlled(path) == ~Whitelisted(path) /\ MatchesAny(config.control, path)
Unclassified(path) == ~Whitelisted(path) /\ ~MatchesAny(config.control, path)

Arrived(r) == reqs[r].st # "idle"
Left(r) == reqs[r].st \in {"passed", "errored", "redirected"}

\* C1: no request makes the pipeline call fetchattributes; a Controlled
\* request with a non-empty key is passed on with next() and no error, without
\* createrequest or requestauth.
C1_KeyPassesThrough ==
  \A r \in ReqIds :
    /\ reqs[r].fetchCalls = 0
    /\ (Arrived(r) /\ Controlled(reqs[r].path) /\ Truthy(reqs[r].key)) =>
         /\ reqs[r].st = "passed"
         /\ reqs[r].err = NoErr
         /\ reqs[r].ctlNext = reqs[r].ctlRan
         /\ reqs[r].ctlRan = NumMatching(config.control, reqs[r].path)
         /\ reqs[r].createCalls = 0
         /\ reqs[r].authCalls = 0

C1_Witness ==
  \E r \in ReqIds :
    /\ Controlled(reqs[r].path) /\ reqs[r].key = "t1"
    /\ reqs[r].st = "passed" /\ reqs[r].ctlNext >= 1

\* C2 as stated: a Controlled request without a key always ends in a redirect
\* and never redeems a ticket.
C2_AlwaysRedirects ==
  \A r \in ReqIds :
    (Left(r) /\ Controlled(reqs[r].path) /\ ~Truthy(reqs[r].key)) =>
      /\ reqs[r].st = "redirected"
      /\ reqs[r].authCalls >= 1
      /\ reqs[r].fetchCalls = 0

\* C2 amended: a Controlled request without a key calls createrequest once and
\* leaves the pipeline only once createrequest has answered; it then ends in a
\* redirect exactly when createrequest succeeded, and it never redeems a ticket.
C2_RedirectsUnlessCreateFails ==
  \A r \in ReqIds :
    (Arrived(r) /\ Controlled(reqs[r].path) /\ ~Truthy(reqs[r].key)) =>
      /\ reqs[r].fetchCalls = 0
      /\ reqs[r].createCalls = 1
      /\ reqs[r].st \in {"awaitCreate", "redirected", "errored"}
      /\ reqs[r].st = "redirected" =>
           reqs[r].createAnswer = NoErr /\ reqs[r].authCalls = 1
      /\ reqs[r].st = "errored" =>
           reqs[r].createAnswer # NoErr /\ reqs[r].authCalls = 0

C2_Witness ==
  \E r \in ReqIds :
    /\ Controlled(reqs[r].path) /\ ~Truthy(reqs[r].key)
    /\ reqs[r].st = "redirected" /\ reqs[r].authCalls = 1

\* C3: a request whose path matches a bypass pattern is Whitelisted whatever
\* else it matches and whatever key it carries: every control handler that
\* runs passes it on with next(), and createrequest, requestauth and
\* fetchattributes are not called.
C3_BypassWins ==
  \A r \in ReqIds :
    (Arrived(r) /\ Whitelisted(reqs[r].path)) =>
      /\ reqs[r].tequila
      /\ reqs[r].st = "passed"
      /\ reqs[r].err = NoErr
      /\ reqs[r].ctlRan = NumMatching(config.control, reqs[r].path)
      /\ reqs[r].ctlNext = reqs[r].ctlRan
      /\ reqs[r].createCalls = 0
      /\ reqs[r].authCalls = 0
      /\ reqs[r].fetchCalls = 0

C3_Witness ==
  \E r \in ReqIds :
    /\ Whitelisted(reqs[r].path) /\ MatchesAny(config.control, reqs[r].path)
    /\ ~Truthy(reqs[r].key)
    /\ reqs[r].st = "passed" /\ reqs[r].ctlNext >= 1

\* C10: for a Controlled request without a key, a failing createrequest has
\* its error forwarded with next(err) and no redirect; a succeeding one is
\* followed by requestauth and no call of next.
C10_CreateRequestOutcome ==
  \A r \in ReqIds :
    (Left(r) /\ Controlled(reqs[r].path) /\ ~Truthy(reqs[r].key)) =>
      IF reqs[r].createAnswer # NoErr
      THEN /\ reqs[r].st = "errored"
           /\ reqs[r].err = reqs[r].createAnswer
           /\ reqs[r].authCalls = 0
      ELSE /\ reqs[r].st = "redirected"
           /\ reqs[r].authCalls = 1
           /\ reqs[r].ctlNext = 0
           /\ reqs[r].err = NoErr

C10_Witness ==
  \E r \in ReqIds :
    /\ Controlled(reqs[r].path) /\ ~Truthy(reqs[r].key)
    /\ reqs[r].st = "errored" /\ reqs[r].err = CreateRequestError

(* ------------------------------------------------------------------------ *)
(* Properties of the login handler                                           *)
(* ------------------------------------------------------------------------ *)
Called(l) == logins[l].st # "idle"
Returned(l) == logins[l].st = "done"
\* fetchattributes answered login call l with an attribute set.
Fetched(l) ==
  Returned(l) /\ logins[l].fetchCalls # <<>> /\ logins[l].answer.err = NoErr
\* fetchattributes answered login call l with an error.
FetchFailed(l) == Returned(l) /\ logins[l].answer.err # NoErr

\* C4: a login call with a ticket whose fetchattributes succeeds with A, under
\* a getUserId that returns a single record, returns {userId: that record's _id}.
C4_RecordLogsIn ==
  \A l \in LoginIds :
    (Fetched(l) /\ config.getUserId = "record") =>
      logins[l].result = LoggedIn(UserIdOf(logins[l].answer.attrs))

\* C5: a login call whose fetchattributes succeeds with A, under a getUserId
\* that returns nothing, returns {error} of the "user unknown" kind carrying A.
C5_UnknownUserCarriesAttrs ==
  \A l \in LoginIds :
    (Fetched(l) /\ config.getUserId = "empty") =>
      /\ logins[l].result.kind = "error"
      /\ logins[l].result.error.name \in {"Tequila:user-unknown", "TEQUILA_USER_UNKNOWN"}
      /\ logins[l].result.error.attrs = logins[l].answer.attrs

\* C6: a login call without a ticket (absent or empty) returns undefined; it
\* does not throw, does not return {error}, and calls neither fetchattributes
\* nor getUserId.
C6_NoTicketDeclines ==
  \A l \in LoginIds :
    (Called(l) /\ ~Truthy(logins[l].key)) =>
      /\ Returned(l)
      /\ logins[l].result = Declined
      /\ logins[l].fetchCalls = <<>>
      /\ logins[l].resolverCalls = <<>>

C6_Witness ==
  \E l, m \in LoginIds :
    /\ Returned(l) /\ logins[l].key = Undefined /\ logins[l].result = Declined
    /\ Returned(m) /\ logins[m].key = "" /\ logins[m].result = Declined

\* C7: the step in which fetchattributes fails for a login call ends that call
\* with {error: e}, e the failure itself, nothing thrown; and it changes
\* nothing else: the configuration, every request, every other login call and
\* the authenticator's tickets are as before, so what is served afterwards is
\* served as it was before.
FetchFails(l) ==
  /\ logins[l].st = "awaitFetch"
  /\ logins'[l].st = "done"
  /\ logins'[l].answer.err # NoErr

C7_FetchFailureIsReturned ==
  [][\A l \in LoginIds :
       FetchFails(l) =>
         /\ logins'[l].result = Failed(logins'[l].answer.err)
         /\ config' = config
         /\ reqs' = reqs
         /\ redeemed' = redeemed
         /\ startup' = startup
         /\ \A m \in LoginIds \ {l} : logins'[m] = logins[m]]_vars

\* A login call has failed on fetchattributes, and a request and a login call
\* that it left waiting or not yet made can go on.
C7_Witness ==
  \E l \in LoginIds :
    /\ FetchFailed(l)
    /\ logins[l].result = Failed(TransportError)
    /\ \E r \in ReqIds : ENABLED HTTPRequest(r, <<>>, Undefined)
    /\ \E m \in LoginIds : ENABLED LoginCall(m, "t1")

\* C8: of the login calls that presented one ticket and have returned, at most
\* one had the ticket exchanged for attributes; at most one returns {userId},
\* and it is that one; every other one returns {error}.
SameTicket(t) == {l \in LoginIds : Returned(l) /\ logins[l].key = t}

C9_OneFetchPerLogin ==
  \A l \in LoginIds :
    (Called(l) /\ Truthy(logins[l].key)) => logins[l].fetchCalls = <<logins[l].key>>

C9_Witness ==
  \E l, m \in LoginIds :
    /\ FetchFailed(l) /\ logins[l].key = "t2" /\ logins[l].fetchCalls = <<"t2">>
    /\ Fetched(m) /\ logins[m].key = "t1" /\ logins[m].fetchCalls = <<"t1">>

\* C11: a login call whose fetchattributes succeeds, under a getUserId that
\* throws or returns a rejected promise, returns {error: e} with e that
\* exception.
C11_ResolverErrorIsReturned ==
  \A l \in LoginIds :
    (Fetched(l) /\ config.getUserId \in {"throws", "rejects"}) =>
      logins[l].result = Failed(ResolverError)

\* C16: a login call whose fetchattributes succeeds with A, under a getUserId
\* that returns a cursor, returns {userId: v} for a cursor that yields the
\* value v first and fails with e for a cursor that yields the error e first.
C16_CursorFirstValue ==
  \A l \in LoginIds :
    /\ (Fetched(l) /\ config.getUserId = "cursor") =>
         logins[l].result = LoggedIn(UserIdOf(logins[l].answer.attrs))
    /\ (Fetched(l) /\ config.getUserId = "errcursor") =>
         logins[l].result = Failed(CursorError)

(* ------------------------------------------------------------------------ *)
(* Further properties of the HTTP pipeline                                   *)
(* ------------------------------------------------------------------------ *)
\* C12: a request whose path matches neither list is passed on untouched, with
\* or without a key: no handler of start() runs for it, and createrequest,
\* requestauth and fetchattributes are not called.
C12_UnclassifiedPassesThrough ==
  \A r \in ReqIds :
    (Arrived(r) /\ Unclassified(reqs[r].path)) =>
      /\ reqs[r].st = "passed"
      /\ reqs[r].err = NoErr
      /\ ~reqs[r].tequila
      /\ reqs[r].ctlRan = 0
      /\ reqs[r].createCalls = 0
      /\ reqs[r].authCalls = 0
      /\ reqs[r].fetchCalls = 0

C12_Witness ==
  \E r \in ReqIds :
    /\ Unclassified(reqs[r].path) /\ ~Truthy(reqs[r].key)
    /\ Len(config.control) > 0 /\ Len(config.bypass) > 0
    /\ reqs[r].st = "passed"

\* The outcome the handlers of start() gave a request: marked by a bypass
\* handler, else dealt with by a control handler, else neither.
OutcomeOf(req) ==
  IF req.tequila THEN "Whitelisted"
  ELSE IF req.ctlRan > 0 THEN "Controlled"
  ELSE "Unclassified"

\* The request sent through the handlers once more, with the mark the first
\* pass left on it.
Reclassified(req) ==
  RunStack([NewReq(req.path, req.key) EXCEPT !.tequila = req.tequila], 1)

\* C15: the outcome the handlers give a request is the one its path has
\* against the two lists, and sending the request, marked as the first pass
\* left it, through the handlers again gives the same outcome.
C15_ClassifyIdempotent ==
  \A r \in ReqIds :
    Arrived(r) =>
      /\ OutcomeOf(reqs[r]) =
           IF Whitelisted(reqs[r].path) THEN "Whitelisted"
           ELSE IF Controlled(reqs[r].path) THEN "Controlled"
           ELSE "Unclassified"
      /\ OutcomeOf(Reclassified(reqs[r])) = OutcomeOf(reqs[r])

C15_Witness ==
  \E r \in ReqIds :
    /\ Arrived(r) /\ reqs[r].tequila
    /\ MatchesAny(config.control, reqs[r].path)
    /\ OutcomeOf(Reclassified(reqs[r])) = "Whitelisted"

\* C20: a request has createrequest called at most once, also when several
\* control patterns match its path, and leaves the pipeline in one way only:
\* passed on (no createrequest, no redirect), or its error forwarded (no
\* redirect), or redirected by the first control handler that matched, with no
\* next() and no later handler run.
C20_OneOutcome ==
  \A r \in ReqIds :
    /\ reqs[r].createCalls <= 1
    /\ reqs[r].authCalls <= reqs[r].createCalls
    /\ reqs[r].st = "passed" =>
         reqs[r].err = NoErr /\ reqs[r].createCalls = 0
    /\ reqs[r].st = "errored" =>
         reqs[r].err # NoErr /\ reqs[r].authCalls = 0 /\ reqs[r].ctlRan = 1
    /\ reqs[r].st = "redirected" =>
         /\ reqs[r].err = NoErr /\ reqs[r].authCalls = 1
         /\ reqs[r].ctlNext = 0 /\ reqs[r].ctlRan = 1

C20_Witness ==
  \E r \in ReqIds :
    /\ NumMatching(config.control, reqs[r].path) = 2
    /\ reqs[r].st = "redirected"
    /\ reqs[r].createCalls = 1 /\ reqs[r].ctlRan = 1

(* ------------------------------------------------------------------------ *)
(* Properties of start()                                                     *)
(* ------------------------------------------------------------------------ *)
Started == startup.pc # "called"
NothingServed ==
  /\ \A r \in ReqIds : reqs[r].st = "idle"
  /\ \A l \in LoginIds : logins[l].st = "idle"

\* C13 as stated: start() called with a fakeLocalServer option that is neither
\* a record containing port nor true throws, before any handler is registered.
C13_InvalidFakeThrows ==
  (/\ Started
   /\ startup.fakeLocalServer # Undefined
   /\ startup.fakeLocalServer \notin {"{port: 3011}", "true"}) =>
     startup.pc = "threw" /\ startup.handlers = {}

\* C13 amended: start() called with a truthy fakeLocalServer option that is
\* neither a record containing port nor true throws, before any handler is
\* registered, so that no request and no login call is ever served; called
\* with a falsy one it returns with both handlers registered.
C13_TruthyInvalidFakeThrows ==
  Started =>
    /\ (/\ FakeTruthy(startup.fakeLocalServer)
        /\ startup.fakeLocalServer \notin {"{port: 3011}", "true"}) =>
          /\ startup.pc = "threw"
          /\ startup.error # NoErr
          /\ startup.handlers = {}
          /\ NothingServed
    /\ ~FakeTruthy(startup.fakeLocalServer) =>
          startup.pc = "returned" /\ startup.handlers = {"http", "login"}

C13_Witness ==
  /\ startup.fakeLocalServer = "{}"
  /\ startup.pc = "threw"
  /\ startup.error = FakeConfigError
  /\ startup.handlers = {}

(* ------------------------------------------------------------------------ *)
(* Shared state                                                              *)
(* ------------------------------------------------------------------------ *)
\* What the pipeline makes of a request when it is the only one ever handled,
\* given the request's path and key and createrequest's answer to it.
AloneRequest(req) ==
  IF req.st = "idle" THEN IdleReq
  ELSE LET first == RunStack(NewReq(req.path, req.key), 1)
       IN IF first.st = "awaitCreate" /\ req.st # "awaitCreate"
          THEN [createrequestCallback(first, req.createAnswer)
                  EXCEPT !.createAnswer = req.createAnswer]
          ELSE first

\* What the login handler makes of a call when it is the only one ever made,
\* given the call's key and fetchattributes' answer to it.
AloneLogin(login) ==
  IF login.st = "idle" THEN IdleLogin
  ELSE LET first == loginHandlerStart(login.key)
       IN IF first.st = "awaitFetch" /\ login.st # "awaitFetch"
          THEN [loginHandlerResume(first, login.answer)
                  EXCEPT !.answer = login.answer]
          ELSE first

WithTicket(l) == Called(l) /\ Truthy(logins[l].key)
Settled(l) == Returned(l) /\ logins[l].result.kind \in {"userId", "error"}

\* C17: a login call presenting a ticket eventually returns, fetchattributes'
\* callback eventually firing, and what it returns is {userId} or {error}:
\* never undefined, never an exception, never still pending.
C17_LoginTerminates ==
  \A l \in LoginIds :
    /\ [](Returned(l) /\ WithTicket(l) => Settled(l))
    /\ WithTicket(l) ~> Settled(l)

\* Two calls with a ticket have returned, one after a fetch that succeeded and
\* one after a fetch that failed.
C17_Witness ==
  \E l, m \in LoginIds :
    /\ WithTicket(l) /\ Fetched(l) /\ Settled(l)
    /\ WithTicket(m) /\ FetchFailed(m) /\ Settled(m)

Redirected(r) == reqs[r].st = "redirected"

====
